---- MODULE Spec2Model ----
(***************************************************************************)
(* A model of backend/main.py of publication_search: the PubMed query      *)
(* compiler (build_pubmed_query), the record extractor (parse_pubmed_xml), *)
(* the search orchestration (search_publications, search_pubmed) and the   *)
(* two LLM-backed routes (generate_query, classify_abstract).              *)
(*                                                                         *)
(* A Python str is modelled as a sequence of one-character strings, so     *)
(* that trimming, splitting, tokenizing, upper-casing and joining are      *)
(* computed character by character as the code computes them.              *)
(***************************************************************************)
EXTENDS Integers, Sequences, FiniteSets, TLC

VARIABLES
    \* build_pubmed_query: its arguments, its locals and its return value
    keywords, search_mode, search_fields,
    tokens, result_tokens, terms, tagged_terms, query, pc,
    \* what build_pubmed_query returns when it is called again on query
    recompiled,
    \* parse_pubmed_xml: its argument, its return value, whether it printed
    \* the parse error, and whether an exception left it
    xml_text, articles, parse_warned, parse_raised, xpc,
    \* one HTTP request: its route and body, the OPENAI_API_KEY of the
    \* environment, where its handler stands, the query compilation, upstream
    \* calls and extraction it has made so far in their order, the lookup's
    \* reply and its idlist, the LLM's parsed content, and the response
    request, api_key, rpc, events, search_data, pmids, llm_content, status, body

compilerVars == <<keywords, search_mode, search_fields,
                  tokens, result_tokens, terms, tagged_terms, query, pc,
                  recompiled>>
extractorVars == <<xml_text, articles, parse_warned, parse_raised, xpc>>

requestVars == <<request, api_key, rpc, events, search_data, pmids, llm_content,
                 status, body>>

vars == <<compilerVars, extractorVars, requestVars>>

-----------------------------------------------------------------------------
(* Bounds of the model *)

\* Longest keywords string enumerated over Alphabet.
MaxLen == 3
\* Most article elements in a document.
MaxArticles == 2
\* Largest max_results of a search request.
MaxResults == 2

-----------------------------------------------------------------------------
(* Characters and strings *)

LowerLetters == <<"a","b","c","d","e","f","g","h","i","j","k","l","m",
                  "n","o","p","q","r","s","t","u","v","w","x","y","z">>
UpperLetters == <<"A","B","C","D","E","F","G","H","I","J","K","L","M",
                  "N","O","P","Q","R","S","T","U","V","W","X","Y","Z">>
Digits == {"0","1","2","3","4","5","6","7","8","9"}

Range(f) == {f[i] : i \in DOMAIN f}
Min(S) == CHOOSE x \in S : \A y \in S : x <= y
Max(S) == CHOOSE x \in S : \A y \in S : x >= y

LowerSet == Range(LowerLetters)
AlnumSet == LowerSet \cup Range(UpperLetters) \cup Digits
SpaceSet == {" ", "\t", "\n", "\r", "\f"}
UpperOf == [c \in LowerSet |->
              UpperLetters[CHOOSE i \in DOMAIN LowerLetters : LowerLetters[i] = c]]

\* [A-Za-z0-9]
IsAlnum(c) == c \in AlnumSet
\* \w of the re module, on the characters of the model
IsWordChar(c) == c \in AlnumSet \/ c = "_"
\* what str.strip() removes
IsSpace(c) == c \in SpaceSet

\* str.upper(), one character
UpperChar(c) == IF c \in LowerSet THEN UpperOf[c] ELSE c
\* str.upper()
Upper(s) == [i \in DOMAIN s |-> UpperChar(s[i])]

\* str.strip()
Strip(s) ==
    LET keep == {i \in DOMAIN s : ~IsSpace(s[i])}
    IN  IF keep = {} THEN <<>> ELSE SubSeq(s, Min(keep), Max(keep))

\* sep.join(parts)
RECURSIVE Join(_, _)
Join(parts, sep) ==
    IF parts = <<>> THEN <<>>
    ELSE IF Len(parts) = 1 THEN parts[1]
    ELSE parts[1] \o sep \o Join(Tail(parts), sep)

\* s.split(c): the pieces between the occurrences of c, empty ones included
RECURSIVE SplitFrom(_, _, _)
SplitFrom(s, c, cur) ==
    IF s = <<>> THEN <<cur>>
    ELSE IF Head(s) = c THEN <<cur>> \o SplitFrom(Tail(s), c, <<>>)
    ELSE SplitFrom(Tail(s), c, Append(cur, Head(s)))
Split(s, c) == SplitFrom(s, c, <<>>)

StartsWith(s, c) == Len(s) > 0 /\ s[1] = c
EndsWith(s, c) == Len(s) > 0 /\ s[Len(s)] = c

QUOTE == "\""
AND == <<"A", "N", "D">>
OR == <<"O", "R">>

-----------------------------------------------------------------------------
(* build_pubmed_query *)

\* The field tag of a field scope; "all", and anything else, has none.
FieldTag(fields) ==
    IF fields = "title" THEN <<"[","T","i","t","l","e","]">>
    ELSE IF fields = "abstract" THEN <<"[","A","b","s","t","r","a","c","t","]">>
    ELSE IF fields = "title_abstract"
         THEN <<"[","T","i","t","l","e","/","A","b","s","t","r","a","c","t","]">>
    ELSE <<>>

\* \b before position p (1..Len(s)+1)
WordBoundary(s, p) ==
    LET w(k) == k \in DOMAIN s /\ IsWordChar(s[k])
    IN  w(p - 1) # w(p)

\* word, matched case-insensitively at position p
MatchesAt(s, p, word) ==
    /\ p + Len(word) - 1 <= Len(s)
    /\ Upper(SubSeq(s, p, p + Len(word) - 1)) = word

\* \b(?:AND|OR)\b with re.IGNORECASE at position p: the length matched, or 0
MatchOperator(s, p) ==
    IF ~WordBoundary(s, p) THEN 0
    ELSE IF MatchesAt(s, p, AND) /\ WordBoundary(s, p + 3) THEN 3
    ELSE IF MatchesAt(s, p, OR) /\ WordBoundary(s, p + 2) THEN 2
    ELSE 0

\* "[^"]+" at position p: the length matched, or 0
MatchQuoted(s, p) ==
    IF s[p] # QUOTE THEN 0
    ELSE LET later == {q \in (p + 1)..Len(s) : s[q] = QUOTE}
         IN  IF later = {} \/ Min(later) = p + 1 THEN 0
             ELSE Min(later) - p + 1

\* MatchParen that sees only the opening parenthesis
MatchParenOpenOnly(s, p) == IF s[p] = "(" THEN 1 ELSE 0

\* [()] at position p
MatchParen(s, p) == IF s[p] \in {"(", ")"} THEN 1 ELSE 0

\* [A-Za-z0-9]+ at position p: the longest run
MatchWord(s, p) ==
    IF ~IsAlnum(s[p]) THEN 0
    ELSE LET stop == {q \in p..Len(s) : ~IsAlnum(s[q])}
         IN  IF stop = {} THEN Len(s) - p + 1 ELSE Min(stop) - p

\* One step of re.findall: the alternatives in their order at position p.
MatchToken(s, p) ==
    IF MatchQuoted(s, p) > 0 THEN MatchQuoted(s, p)
    ELSE IF MatchParen(s, p) > 0 THEN MatchParen(s, p)
    ELSE IF MatchOperator(s, p) > 0 THEN MatchOperator(s, p)
    ELSE MatchWord(s, p)

\* re.findall(pattern, s): the matches left to right, unmatched characters skipped
RECURSIVE FindAll(_, _)
FindAll(s, p) ==
    IF p > Len(s) THEN <<>>
    ELSE LET n == MatchToken(s, p)
         IN  IF n = 0 THEN FindAll(s, p + 1)
             ELSE <<SubSeq(s, p, p + n - 1)>> \o FindAll(s, p + n)
Tokenize(s) == FindAll(s, 1)

\* re.search(r'\b(AND|OR)\b', keywords, re.IGNORECASE)
HasOperators(s) == \E p \in DOMAIN s : MatchOperator(s, p) > 0
HasParentheses(s) == \E p \in DOMAIN s : s[p] \in {"(", ")"}
IsComplex(s) == HasParentheses(s) \/ HasOperators(s)

\* token_upper in ['AND', 'OR', '(', ')']
IsOperatorToken(t) == Upper(t) \in {AND, OR}
IsParenToken(t) == t \in {<<"(">>, <<")">>}
IsStructural(t) == IsOperatorToken(t) \/ IsParenToken(t)
\* token.startswith('"') and token.endswith('"')
IsQuotedToken(t) == StartsWith(t, QUOTE) /\ EndsWith(t, QUOTE)

\* PhraseEnd that takes one word and looks no further
PhraseEndNoLookahead(toks, i) == i + 1

\* The inner while loop: the first j > i at which the phrase stops.
PhraseEnd(toks, i) ==
    LET stop == {j \in (i + 1)..Len(toks) :
                    IsStructural(toks[j]) \/ StartsWith(toks[j], QUOTE)}
    IN  IF stop = {} THEN Len(toks) + 1 ELSE Min(stop)

\* The phrase of tokens i..j-1, quoted when it has more than one word, tagged.
EmitPhrase(phrase_tokens, tag) ==
    IF Len(phrase_tokens) > 1
    THEN <<QUOTE>> \o Join(phrase_tokens, <<" ">>) \o <<QUOTE>> \o tag
    ELSE Join(phrase_tokens, <<" ">>) \o tag

\* An operator or a parenthesis, operators upper-cased
EmitStructural(token) == IF IsOperatorToken(token) THEN Upper(token) ELSE token

\* EmitQuoted with the tag left out
EmitQuotedUntagged(token, tag) == token

\* A quoted phrase, tagged
EmitQuoted(token, tag) == token \o tag

\* The outer while loop, from token i on
RECURSIVE ProcessTokens(_, _, _)
ProcessTokens(toks, i, tag) ==
    IF i > Len(toks) THEN <<>>
    ELSE IF IsStructural(toks[i])
         THEN <<EmitStructural(toks[i])>> \o ProcessTokens(toks, i + 1, tag)
    ELSE IF IsQuotedToken(toks[i])
         THEN <<EmitQuoted(toks[i], tag)>> \o ProcessTokens(toks, i + 1, tag)
    ELSE LET j == PhraseEnd(toks, i)
         IN  <<EmitPhrase(SubSeq(toks, i, j - 1), tag)>> \o ProcessTokens(toks, j, tag)

\* SimpleTerms whose fallback keeps the string untrimmed
SimpleTermsUnstripped(s) ==
    LET pieces == Split(s, ",")
        kept == SelectSeq([i \in DOMAIN pieces |-> Strip(pieces[i])],
                          LAMBDA t : t # <<>>)
    IN  IF Len(kept) = 0 THEN <<s>> ELSE kept

\* terms = [term.strip() for term in keywords.split(',') if term.strip()],
\* and the whole stripped string when that is empty
SimpleTerms(s) ==
    LET pieces == Split(s, ",")
        kept == SelectSeq([i \in DOMAIN pieces |-> Strip(pieces[i])],
                          LAMBDA t : t # <<>>)
    IN  IF Len(kept) = 0 THEN <<Strip(s)>> ELSE kept

\* TagTerm with the quoting of multi-word terms left out
TagTermUnquoted(term, tag) == term \o tag

\* One term of the simple grammar, quoted when it holds a space, tagged
TagTerm(term, tag) ==
    IF \E i \in DOMAIN term : term[i] = " "
    THEN <<QUOTE>> \o term \o <<QUOTE>> \o tag
    ELSE term \o tag

\* operator = f" {search_mode.upper()} "
Separator(mode) == <<" ">> \o Upper(mode) \o <<" ">>

-----------------------------------------------------------------------------
(* The inputs of the model *)

\* The characters the enumerated keywords are made of: two letters that spell
\* an operator in mixed case, the separators of both grammars, and a word
\* character that is not alphanumeric.
Alphabet == {"O", "r", " ", ",", "(", ")", QUOTE, "_"}

StringsUpTo(n) == UNION {[1..k -> Alphabet] : k \in 0..n}

\* The examples of the docstring of build_pubmed_query, and longer inputs
Samples == {
    <<"(","S","R","M"," ","1","9","5","0"," ","O","R"," ","S","R","M","1","9","5","0",")"," ","A","N","D"," ","H","I","L","I","C">>,
    <<"S","R","M"," ","1","9","5","0",","," ","H","I","L","I","C">>,
    <<" "," "," ">>,
    <<"a"," ","a","n","d"," ","\"","b"," ","c","\""," ","o","r"," ","(","d"," ","e"," ","f",")">>,
    <<"x",","," ","y"," ","z"," ",",",",","w">>,
    <<"(","x"," ","O","R"," ","\"","y"," ","(","z","\"",")"," ",")">>,
    <<"(","a"," ","b"," ","c"," ","a","n","d","_","d",")">>,
    <<"\"","y"," ","z","\"",","," ","x">> }

Keywords == StringsUpTo(MaxLen) \cup Samples

Modes == {AND, <<"o", "r">>}
FieldScopes == {"all", "title", "abstract", "title_abstract"}

-----------------------------------------------------------------------------
(* The state machine of one call of build_pubmed_query *)

CompilerInit ==
    /\ keywords \in Keywords
    /\ search_mode \in Modes
    /\ search_fields \in FieldScopes
    /\ tokens = <<>>
    /\ result_tokens = <<>>
    /\ terms = <<>>
    /\ tagged_terms = <<>>
    /\ query = <<>>
    /\ recompiled = <<>>
    /\ pc = "start"

\* The complex branch: tokenize, walk the tokens, join with spaces
CompileComplex(k, fields) ==
    LET toks == Tokenize(Strip(k))
        out == ProcessTokens(toks, 1, FieldTag(fields))
    IN  [tokens |-> toks, result_tokens |-> out, query |-> Join(out, <<" ">>)]

\* The simple branch: split on commas, tag, join with the mode
CompileSimple(k, mode, fields) ==
    LET ts == SimpleTerms(k)
        empty == ts = <<>> \/ (Len(ts) = 1 /\ ts[1] = <<>>)
        tagged == [i \in DOMAIN ts |-> TagTerm(ts[i], FieldTag(fields))]
    IN  [terms |-> ts,
         tagged_terms |-> IF empty THEN <<>> ELSE tagged,
         query |-> IF empty THEN <<>> ELSE Join(tagged, Separator(mode))]

\* The value build_pubmed_query returns
QueryOf(k, mode, fields) ==
    IF IsComplex(k) THEN CompileComplex(k, fields).query
    ELSE CompileSimple(k, mode, fields).query

BuildComplex ==
    /\ pc = "start"
    /\ IsComplex(keywords)
    /\ LET r == CompileComplex(keywords, search_fields)
       IN  /\ tokens' = r.tokens
           /\ result_tokens' = r.result_tokens
           /\ query' = r.query
    /\ pc' = "done"
    /\ UNCHANGED <<keywords, search_mode, search_fields, terms, tagged_terms,
                   recompiled>>
    /\ UNCHANGED <<extractorVars, requestVars>>

BuildSimple ==
    /\ pc = "start"
    /\ ~IsComplex(keywords)
    /\ LET r == CompileSimple(keywords, search_mode, search_fields)
       IN  /\ terms' = r.terms
           /\ tagged_terms' = r.tagged_terms
           /\ query' = r.query
    /\ pc' = "done"
    /\ UNCHANGED <<keywords, search_mode, search_fields, tokens, result_tokens,
                   recompiled>>
    /\ UNCHANGED <<extractorVars, requestVars>>

BuildPubmedQuery == BuildComplex \/ BuildSimple

\* build_pubmed_query called again, on the query it returned, with the same
\* mode and field scope
Recompile ==
    /\ pc = "done"
    /\ recompiled' = QueryOf(query, search_mode, search_fields)
    /\ pc' = "recompiled"
    /\ UNCHANGED <<keywords, search_mode, search_fields, tokens, result_tokens,
                   terms, tagged_terms, query>>
    /\ UNCHANGED <<extractorVars, requestVars>>

\* No call of build_pubmed_query in this run
CompilerIdle ==
    /\ keywords = <<>>
    /\ search_mode = AND
    /\ search_fields = "all"
    /\ tokens = <<>>
    /\ result_tokens = <<>>
    /\ terms = <<>>
    /\ tagged_terms = <<>>
    /\ query = <<>>
    /\ recompiled = <<>>
    /\ pc = "idle"

-----------------------------------------------------------------------------
(* Vocabulary of the properties of build_pubmed_query, written from the    *)
(* documented contract rather than from the code                           *)

\* The documented field-tag mapping
TagOf == [all            |-> <<>>,
          title          |-> <<"[","T","i","t","l","e","]">>,
          abstract       |-> <<"[","A","b","s","t","r","a","c","t","]">>,
          title_abstract |-> <<"[","T","i","t","l","e","/","A","b","s","t","r","a","c","t","]">>]

\* The pieces of s between its commas, by the positions of the commas
CommaPieces(s) ==
    LET cuts == {0, Len(s) + 1} \cup {i \in DOMAIN s : s[i] = ","}
        cut(k) == CHOOSE c \in cuts : Cardinality({d \in cuts : d < c}) = k - 1
    IN  [k \in 1..(Cardinality(cuts) - 1) |-> SubSeq(s, cut(k) + 1, cut(k + 1) - 1)]

RECURSIVE DropLeadingSpace(_)
DropLeadingSpace(s) ==
    IF s # <<>> /\ Head(s) \in SpaceSet THEN DropLeadingSpace(Tail(s)) ELSE s
RECURSIVE DropTrailingSpace(_)
DropTrailingSpace(s) ==
    IF s # <<>> /\ s[Len(s)] \in SpaceSet
    THEN DropTrailingSpace(SubSeq(s, 1, Len(s) - 1)) ELSE s
Trimmed(s) == DropTrailingSpace(DropLeadingSpace(s))

\* The non-empty trimmed comma-separated pieces, in their order
NonEmptyPieces(s) ==
    SelectSeq([k \in DOMAIN CommaPieces(s) |-> Trimmed(CommaPieces(s)[k])],
              LAMBDA t : t # <<>>)

HasSpace(t) == \E i \in DOMAIN t : t[i] = " "

\* A term as the simple grammar emits it
ExpectedTerm(t, tag) == IF HasSpace(t) THEN <<QUOTE>> \o t \o <<QUOTE>> \o tag ELSE t \o tag

\* parts joined by sep, built from the right
RECURSIVE JoinedBy(_, _)
JoinedBy(parts, sep) ==
    IF Len(parts) = 0 THEN <<>>
    ELSE IF Len(parts) = 1 THEN parts[1]
    ELSE JoinedBy(SubSeq(parts, 1, Len(parts) - 1), sep) \o sep \o parts[Len(parts)]

\* ' AND ' or ' OR ', by the mode in any letter case
ModeSeparator(mode) ==
    IF Upper(mode) = AND THEN <<" ","A","N","D"," ">> ELSE <<" ","O","R"," ">>

ExpectedSimple(ts, mode, fields) ==
    JoinedBy([i \in DOMAIN ts |-> ExpectedTerm(ts[i], TagOf[fields])], ModeSeparator(mode))

\* The terms of the simple grammar: the non-empty pieces, and when there is
\* none, the whole trimmed string if that is not empty
TermsWithFallback(s) ==
    IF NonEmptyPieces(s) # <<>> THEN NonEmptyPieces(s)
    ELSE IF Trimmed(s) # <<>> THEN <<Trimmed(s)>>
    ELSE <<>>

SimpleDone == pc = "done" /\ ~IsComplex(keywords)
ComplexDone == pc = "done" /\ IsComplex(keywords)

\* C1 as stated: for every simple-grammar input the query is the non-empty
\* trimmed comma-separated pieces, in order, each quoted when it holds a space
\* and tagged, joined by the upper-cased mode.
C1_SimpleIsPiecesJoined ==
    SimpleDone => query = ExpectedSimple(NonEmptyPieces(keywords), search_mode, search_fields)

\* C1 amended: the same, except that an input with no non-empty piece whose
\* trimmed text is not empty (commas and whitespace only) yields that trimmed
\* text as its single term; with mode AND and no space in any term the query is
\* the terms, each followed by the tag, joined by " AND ".
C1_SimpleIsTermsJoined ==
    SimpleDone =>
        LET ts == TermsWithFallback(keywords)
        IN  /\ query = ExpectedSimple(ts, search_mode, search_fields)
            /\ NonEmptyPieces(keywords) # <<>> => terms = NonEmptyPieces(keywords)
            /\ (search_mode = AND /\ \A i \in DOMAIN ts : ~HasSpace(ts[i]))
                  => query = JoinedBy([i \in DOMAIN ts |-> ts[i] \o TagOf[search_fields]],
                                      <<" ","A","N","D"," ">>)

\* A simple-grammar call with several terms, an empty piece dropped, a term
\* that holds a space, joined by a lower-case mode
C1_Witness ==
    /\ SimpleDone
    /\ Len(terms) >= 2
    /\ Len(CommaPieces(keywords)) > Len(terms)
    /\ \E i \in DOMAIN terms : HasSpace(terms[i])
    /\ search_mode = <<"o", "r">>
    /\ search_fields = "title"
    /\ Len(query) > 0

Parens(s) == SelectSeq(s, LAMBDA c : c \in {"(", ")"})

\* C2: in the complex grammar the parenthesis characters of the query are
\* those of the keywords, in the same order, for every mode and field scope.
C2_ParenthesesPreserved ==
    ComplexDone => Parens(query) = Parens(keywords)

\* A complex call with parentheses in both orders, one of them inside a quoted phrase
C2_Witness ==
    /\ ComplexDone
    /\ Len(Parens(keywords)) >= 4
    /\ \E i \in DOMAIN tokens :
          IsQuotedToken(tokens[i]) /\ Parens(tokens[i]) # <<>>
    /\ \E i \in DOMAIN result_tokens : result_tokens[i] = <<")">>

\* C4: empty or whitespace-only keywords give the empty query, for every mode
\* and field scope.
C4_BlankGivesEmpty ==
    (pc = "done" /\ \A i \in DOMAIN keywords : keywords[i] \in SpaceSet)
        => query = <<>> /\ tagged_terms = <<>> /\ result_tokens = <<>>

\* A whitespace-only call with a field tag and mode OR
C4_Witness ==
    /\ pc = "done"
    /\ Len(keywords) >= 2
    /\ \A i \in DOMAIN keywords : keywords[i] = " "
    /\ search_fields = "title_abstract"
    /\ Upper(search_mode) = OR
    /\ query = <<>>

EndsWithSeq(s, suf) ==
    Len(s) >= Len(suf) /\ SubSeq(s, Len(s) - Len(suf) + 1, Len(s)) = suf
WithoutSuffix(s, suf) == SubSeq(s, 1, Len(s) - Len(suf))
\* The number of places of s at which sub occurs
Occurrences(s, sub) ==
    Cardinality({p \in 1..(Len(s) - Len(sub) + 1) : SubSeq(s, p, p + Len(sub) - 1) = sub})

\* An operator or a parenthesis as the query shows it
IsOperatorText(r) == r \in {AND, OR}
IsParenText(r) == r \in {<<"(">>, <<")">>}
\* A term or a phrase followed by exactly one tag
IsTaggedTerm(r, tag) ==
    /\ EndsWithSeq(r, tag)
    /\ Occurrences(r, tag) = 1
    /\ LET term == WithoutSuffix(r, tag)
       IN  term # <<>> /\ ~IsOperatorText(Upper(term)) /\ ~IsParenText(term)

\* What the call emitted, in either grammar
Emitted == IF IsComplex(keywords) THEN result_tokens ELSE tagged_terms

\* C3: with a non-empty field tag, every emitted term or quoted phrase is
\* immediately followed by the tag, every operator and parenthesis is emitted
\* without one, and the query holds one tag per term (none on the operators
\* that join the terms).
C3_TagOnTermsOnly ==
    (pc = "done" /\ TagOf[search_fields] # <<>>) =>
        LET tag == TagOf[search_fields]
            bare == {i \in DOMAIN Emitted : IsOperatorText(Emitted[i]) \/ IsParenText(Emitted[i])}
        IN  /\ \A i \in DOMAIN Emitted : i \in bare \/ IsTaggedTerm(Emitted[i], tag)
            /\ IsComplex(keywords) =>
                  Cardinality(bare) =
                      Cardinality({i \in DOMAIN tokens :
                          IsOperatorText(Upper(tokens[i])) \/ IsParenText(tokens[i])})
            /\ ~IsComplex(keywords) => bare = {}
            /\ Occurrences(query, tag) = Len(Emitted) - Cardinality(bare)

\* A complex call with a tag that emitted a quoted phrase, a bare word, a
\* multi-word phrase, an operator and a parenthesis
C3_Witness ==
    /\ ComplexDone
    /\ search_fields = "abstract"
    /\ \E i \in DOMAIN tokens : IsQuotedToken(tokens[i])
    /\ \E i \in DOMAIN result_tokens : IsOperatorText(result_tokens[i])
    /\ \E i \in DOMAIN result_tokens : IsParenText(result_tokens[i])
    /\ Occurrences(query, TagOf["abstract"]) >= 3

\* The kind of a token of the complex grammar
Kind(t) ==
    IF IsParenText(t) THEN "paren"
    ELSE IF IsOperatorText(Upper(t)) THEN "operator"
    ELSE IF t[1] = QUOTE THEN "quoted"
    ELSE "word"
IsWordAt(i) == i \in DOMAIN tokens /\ Kind(tokens[i]) = "word"
\* Token i starts a maximal run of bare words
RunStart(i) == IsWordAt(i) /\ ~IsWordAt(i - 1)
\* The last token of the maximal run that starts at i
RunEnd(i) == Max({j \in i..Len(tokens) : \A k \in i..j : IsWordAt(k)})
\* Token i starts an output token: it is no bare word, or starts a run
UnitStart(i) == i \in DOMAIN tokens /\ (~IsWordAt(i) \/ RunStart(i))
\* The place in the output of the unit token i belongs to
OutIndex(i) == Cardinality({k \in 1..i : UnitStart(k)})
\* What the unit that starts at token i is emitted as
ExpectedUnit(i, tag) ==
    CASE Kind(tokens[i]) = "paren" -> tokens[i]
      [] Kind(tokens[i]) = "operator" -> Upper(tokens[i])
      [] Kind(tokens[i]) = "quoted" -> tokens[i] \o tag
      [] OTHER ->
            LET ws == SubSeq(tokens, i, RunEnd(i))
            IN  IF Len(ws) > 1
                THEN <<QUOTE>> \o JoinedBy(ws, <<" ">>) \o <<QUOTE>> \o tag
                ELSE ws[1] \o tag
\* The alphanumeric and parenthesis characters of s, in order
TokenChars(s) == SelectSeq(s, LAMBDA c : c \in AlnumSet \/ c \in {"(", ")"})
RECURSIVE Concat(_)
Concat(ss) == IF ss = <<>> THEN <<>> ELSE Head(ss) \o Concat(Tail(ss))

\* C10: in the complex grammar every maximal run of bare-word tokens is
\* emitted as one term (the words joined by single spaces, quoted when more
\* than one, then the tag), the other tokens are emitted one for one in order
\* with operators in upper case, no two adjacent output tokens both come from
\* bare words, and no alphanumeric or parenthesis character of the input is
\* lost by the tokenizer.
C10_RunsEmittedOnce ==
    ComplexDone =>
        LET tag == TagOf[search_fields]
        IN  /\ Len(result_tokens) = Cardinality({i \in DOMAIN tokens : UnitStart(i)})
            /\ \A i \in DOMAIN tokens :
                  UnitStart(i) => result_tokens[OutIndex(i)] = ExpectedUnit(i, tag)
            /\ \A i \in DOMAIN tokens :
                  (RunStart(i) /\ RunEnd(i) < Len(tokens)) => ~IsWordAt(RunEnd(i) + 1)
            /\ \A i, j \in DOMAIN tokens :
                  (RunStart(i) /\ RunStart(j)) => OutIndex(j) # OutIndex(i) + 1
            /\ TokenChars(Concat(tokens)) = TokenChars(keywords)
            /\ query = JoinedBy(result_tokens, <<" ">>)

\* A complex call with a run of three words, a run of one word, a quoted
\* phrase and lower-case operators
C10_Witness ==
    /\ ComplexDone
    /\ \E i \in DOMAIN tokens : RunStart(i) /\ RunEnd(i) >= i + 2
    /\ \E i \in DOMAIN tokens : RunStart(i) /\ RunEnd(i) = i
    /\ \E i \in DOMAIN tokens : Kind(tokens[i]) = "quoted"
    /\ \E i \in DOMAIN tokens : Kind(tokens[i]) = "operator" /\ tokens[i] # Upper(tokens[i])
    /\ Len(result_tokens) < Len(tokens)

\* The first call has returned and the second call on its result has too
Recompiled == pc = "recompiled" /\ search_fields = "all"
HasQuote(t) == \E i \in DOMAIN t : t[i] = QUOTE
HasComma(t) == \E i \in DOMAIN t : t[i] = ","
IsAlnumText(t) == t # <<>> /\ \A i \in DOMAIN t : t[i] \in AlnumSet
\* The simple-grammar inputs whose compiled query compiles to itself: nothing
\* to compile, one term without a space, or several terms each of which is
\* alphanumeric or holds a space and no double quote
StableSimple ==
    /\ ~IsComplex(keywords)
    /\ \/ query = <<>>
       \/ Len(terms) = 1 /\ ~HasSpace(terms[1])
       \/ /\ Len(terms) > 1
          /\ \A i \in DOMAIN terms :
                \/ IsAlnumText(terms[i])
                \/ HasSpace(terms[i]) /\ ~HasQuote(terms[i])

\* C11 as stated: with field scope "all", compiling the compiled query again
\* returns it unchanged, for every keywords string and mode.
C11_CompileIdempotent == Recompiled => recompiled = query

\* How far C11 goes: with field scope "all", compiling the compiled query
\* again returns it unchanged for every complex-grammar input, where a quoted
\* phrase of the input is emitted as it stands; in the simple grammar it
\* returns it unchanged when there is nothing to compile, one term without a
\* space, or several terms each alphanumeric or holding a space and no
\* double quote, and a single term that holds a space and no comma gains one
\* more pair of quotes at each compilation.
IdempotentWhereNotRequoted ==
    Recompiled =>
        /\ (IsComplex(keywords) \/ StableSimple) => recompiled = query
        /\ IsComplex(keywords) =>
              \A i \in DOMAIN tokens :
                  Kind(tokens[i]) = "quoted" => result_tokens[OutIndex(i)] = tokens[i]
        /\ (~IsComplex(keywords) /\ Len(terms) = 1 /\ HasSpace(terms[1])
               /\ ~HasComma(terms[1])) =>
              /\ query = <<QUOTE>> \o terms[1] \o <<QUOTE>>
              /\ recompiled = <<QUOTE>> \o query \o <<QUOTE>>

\* A complex call, compiled twice, whose input holds a quoted phrase and a
\* run of several bare words that the first compilation put in quotes
StableComplexReached ==
    /\ Recompiled
    /\ IsComplex(keywords)
    /\ \E i \in DOMAIN tokens : Kind(tokens[i]) = "quoted"
    /\ \E i \in DOMAIN tokens : RunStart(i) /\ RunEnd(i) > i
    /\ recompiled = query
    /\ query # Strip(keywords)

\* A simple call, compiled twice, whose input holds a double-quoted phrase of
\* two words: the first compilation wraps it in a second pair of quotes, and
\* the second compilation returns another query
C11_Witness ==
    /\ Recompiled
    /\ ~IsComplex(keywords)
    /\ \E i \in DOMAIN terms :
          /\ Len(terms[i]) > 2
          /\ Head(terms[i]) = QUOTE
          /\ terms[i][Len(terms[i])] = QUOTE
          /\ IsAlnumText(SelectSeq(terms[i], LAMBDA c : c \notin {" ", QUOTE}))
          /\ tagged_terms[i] = <<QUOTE>> \o terms[i] \o <<QUOTE>>
    /\ recompiled # query

-----------------------------------------------------------------------------
(* parse_pubmed_xml *)

\* find() found no such element
Missing == "<missing>"
\* Python's None: the .text of an element that holds no text of its own
None == "<None>"

\* elem.text if elem is not None else default
TextOr(elem, default) == IF elem = Missing THEN default ELSE elem

\* str() of a value inside an f-string
Fmt(v) == IF v = None THEN "None" ELSE v

\* The authors loop: an author with no LastName is skipped
RECURSIVE AuthorNames(_)
AuthorNames(author_elems) ==
    IF author_elems = <<>> THEN <<>>
    ELSE LET a == Head(author_elems)
             rest == AuthorNames(Tail(author_elems))
         IN  IF a.last = Missing THEN rest
             ELSE IF a.fore = Missing THEN <<(<<a.last>>)>> \o rest
             ELSE <<(<<Fmt(a.fore), " ", Fmt(a.last)>>)>> \o rest

\* The publication-type texts that hold "open access" in some letter case
OpenAccessTexts == {"Open Access", "OPEN ACCESS article"}

\* PMC id present, or a publication type that says open access
IsOpenAccess(elem) ==
    \/ elem.pmc
    \/ \E i \in DOMAIN elem.pub_types :
          elem.pub_types[i] # None /\ elem.pub_types[i] \in OpenAccessTexts

\* Journal/Title, else Journal/ISOAbbreviation, else None
JournalOf(elem) ==
    LET journal_elem == IF elem.journal_title = Missing THEN elem.iso
                        ELSE elem.journal_title
    IN  TextOr(journal_elem, None)

\* The keyword arguments of Article(...) for one PubmedArticle element
ArticleFields(elem) ==
    LET pmid == TextOr(elem.pmid, "unknown")
    IN  [id |-> pmid,
         title |-> TextOr(elem.title, "No title"),
         authors |-> AuthorNames(elem.authors),
         abstract |-> TextOr(elem.abstract, "No abstract available"),
         publication_date |-> TextOr(elem.year, None),
         source |-> "pubmed",
         url |-> <<"https://pubmed.ncbi.nlm.nih.gov/", Fmt(pmid), "/">>,
         journal |-> JournalOf(elem),
         is_open_access |-> IsOpenAccess(elem)]

\* The validation of the Article model: id, title, abstract and every author
\* are str, which None is not; the Optional fields take None
ArticleValidates(a) ==
    /\ a.id # None
    /\ a.title # None
    /\ a.abstract # None
    /\ \A i \in DOMAIN a.authors : a.authors[i] # <<None>>

\* The for loop inside the try, from element i on: the articles appended, and
\* the exception that ended the loop, if any
RECURSIVE ExtractLoop(_, _, _)
ExtractLoop(elems, i, acc) ==
    IF i > Len(elems) THEN [articles |-> acc, exception |-> "none"]
    ELSE LET a == ArticleFields(elems[i])
         IN  IF ArticleValidates(a) THEN ExtractLoop(elems, i + 1, Append(acc, a))
             ELSE [articles |-> acc, exception |-> "ValidationError"]

\* The body of the try: ET.fromstring, then the loop
TryBody(doc) ==
    IF ~doc.wellformed THEN [articles |-> <<>>, exception |-> "ParseError"]
    ELSE ExtractLoop(doc.elems, 1, <<>>)

\* A handler that catches the parse error only
CaughtParseErrorOnly(exception) == exception = "ParseError"

\* except Exception: every exception of the body is one
Caught(exception) == exception \in {"ParseError", "ValidationError"}

\* parse_pubmed_xml: the list returned, whether the error was printed, and
\* whether an exception left the function
ParsePubmedXml(doc) ==
    LET r == TryBody(doc)
    IN  [articles |-> r.articles,
         warned |-> r.exception # "none" /\ Caught(r.exception),
         raised |-> r.exception # "none" /\ ~Caught(r.exception)]

\* An article element with every field present
FullElem ==
    [pmid |-> "31452104", title |-> "A title", abstract |-> "An abstract",
     authors |-> <<[last |-> "Smith", fore |-> "Ann"]>>,
     year |-> "2019", journal_title |-> "Metabolomics", iso |-> "Metab",
     pmc |-> FALSE, pub_types |-> <<"Journal Article">>]

\* An article element with no sub-element at all
BareElem ==
    [pmid |-> Missing, title |-> Missing, abstract |-> Missing, authors |-> <<>>,
     year |-> Missing, journal_title |-> Missing, iso |-> Missing,
     pmc |-> FALSE, pub_types |-> <<>>]

AuthorShapes == {
    <<>>,
    <<[last |-> "Smith", fore |-> Missing]>>,
    <<[last |-> Missing, fore |-> "Ann"]>>,
    <<[last |-> None, fore |-> Missing]>>,
    <<[last |-> "Smith", fore |-> None]>>,
    <<[last |-> Missing, fore |-> Missing], [last |-> "Lee", fore |-> "Bo"]>> }

\* The article elements of the model: the full one, the bare one, and the
\* full one with one sub-element absent, empty or different
ElemShapes ==
    {FullElem, BareElem}
    \cup {[FullElem EXCEPT !.pmid = v] : v \in {Missing, None, "2"}}
    \cup {[FullElem EXCEPT !.title = v] : v \in {Missing, None}}
    \cup {[FullElem EXCEPT !.abstract = v] : v \in {Missing, None}}
    \cup {[FullElem EXCEPT !.authors = v] : v \in AuthorShapes}
    \cup {[FullElem EXCEPT !.year = v] : v \in {Missing, None}}
    \cup {[FullElem EXCEPT !.journal_title = v] : v \in {Missing, None}}
    \cup {[FullElem EXCEPT !.journal_title = Missing, !.iso = Missing]}
    \cup {[FullElem EXCEPT !.pmc = TRUE]}
    \cup {[FullElem EXCEPT !.pub_types = v] : v \in {<<None>>, <<"Journal Article", "Open Access">>}}

\* Text that is not well-formed XML
Malformed == [wellformed |-> FALSE, elems |-> <<>>]

Documents ==
    {Malformed}
    \cup {[wellformed |-> TRUE, elems |-> es] :
            es \in UNION {[1..n -> ElemShapes] : n \in 0..MaxArticles}}

ExtractorInit ==
    /\ xml_text \in Documents
    /\ articles = <<>>
    /\ parse_warned = FALSE
    /\ parse_raised = FALSE
    /\ xpc = "start"

ExtractorIdle ==
    /\ xml_text = Malformed
    /\ articles = <<>>
    /\ parse_warned = FALSE
    /\ parse_raised = FALSE
    /\ xpc = "idle"

\* One call of parse_pubmed_xml
ParseXml ==
    /\ xpc = "start"
    /\ LET r == ParsePubmedXml(xml_text)
       IN  /\ articles' = r.articles
           /\ parse_warned' = r.warned
           /\ parse_raised' = r.raised
    /\ xpc' = "done"
    /\ UNCHANGED xml_text
    /\ UNCHANGED <<compilerVars, requestVars>>

-----------------------------------------------------------------------------
(* The routes: search_publications, search_pubmed, search_biorxiv,         *)
(* generate_query, classify_abstract                                       *)

\* dict.get(key, default)
Get(d, key, default) == IF key \in DOMAIN d THEN d[key] ELSE default
\* The dict d without the keys outside S
Restrict(d, S) == [k \in S |-> d[k]]

\* KeyConfigured without the test
KeyConfiguredAlways(key) == TRUE

\* if not api_key: unset, or set to the empty string
KeyConfigured(key) == key # None /\ key # ""

\* The branch search_publications takes
SourceBranch(source) ==
    IF source = "pubmed" THEN "pubmed"
    ELSE IF source = "biorxiv" THEN "biorxiv"
    ELSE "invalid"

\* AfterLookup without the test for an empty idlist
AfterLookupNoEmptyTest(data) ==
    IF ~data.has_result \/ ~data.has_idlist THEN "return_empty" ELSE "fetch"

\* What search_pubmed does with the lookup's JSON: no esearchresult or no
\* idlist, or an empty idlist, return []; else fetch
AfterLookup(data) ==
    IF ~data.has_result \/ ~data.has_idlist THEN "return_empty"
    ELSE IF data.idlist = <<>> THEN "return_empty"
    ELSE "fetch"

\* The body generate_query returns for the LLM's parsed content
GenerateQueryBody(query_result) ==
    [pubmed_query       |-> Get(query_result, "pubmed_query", ""),
     extracted_concepts |-> Get(query_result, "extracted_concepts", <<>>),
     synonyms_used      |-> Get(query_result, "synonyms_used", <<>>),
     explanation        |-> Get(query_result, "explanation", "")]

\* ClassifyBody that falls back to another confidence
ClassifyBodyMediumDefault(article_id, classification) ==
    [article_id        |-> article_id,
     has_dataset       |-> Get(classification, "has_dataset", FALSE),
     confidence        |-> Get(classification, "confidence", "medium"),
     reason            |-> Get(classification, "reason", "Unable to determine"),
     data_availability |-> Get(classification, "data_availability", None),
     labels            |-> Get(classification, "labels", <<>>),
     method_types      |-> Get(classification, "method_types", <<>>)]

\* The body classify_abstract returns for the LLM's parsed content
ClassifyBody(article_id, classification) ==
    [article_id        |-> article_id,
     has_dataset       |-> Get(classification, "has_dataset", FALSE),
     confidence        |-> Get(classification, "confidence", "low"),
     reason            |-> Get(classification, "reason", "Unable to determine"),
     data_availability |-> Get(classification, "data_availability", None),
     labels            |-> Get(classification, "labels", <<>>),
     method_types      |-> Get(classification, "method_types", <<>>)]

\* No reply of the lookup yet
NoReply == [received |-> FALSE]

Ids == {"101", "102"}
IdLists(n) == UNION {[1..k -> Ids] : k \in 0..n}

\* The JSON the lookup may answer to a call with the given retmax
EsearchReplies(retmax) ==
    {[received |-> TRUE, has_result |-> FALSE, has_idlist |-> FALSE, idlist |-> <<>>],
     [received |-> TRUE, has_result |-> TRUE, has_idlist |-> FALSE, idlist |-> <<>>]}
    \cup {[received |-> TRUE, has_result |-> TRUE, has_idlist |-> TRUE, idlist |-> ids] :
            ids \in IdLists(retmax)}

\* The documents the detail fetch may answer
FetchedDocuments ==
    {Malformed,
     [wellformed |-> TRUE, elems |-> <<>>],
     [wellformed |-> TRUE, elems |-> <<FullElem>>],
     [wellformed |-> TRUE, elems |-> <<FullElem, BareElem>>],
     [wellformed |-> TRUE, elems |-> <<[FullElem EXCEPT !.pmid = None], FullElem>>]}

GenerateKeys == {"pubmed_query", "extracted_concepts", "synonyms_used", "explanation"}
ClassifyKeys == {"has_dataset", "confidence", "reason", "data_availability",
                 "labels", "method_types"}

\* The JSON objects the LLM may answer to generate_query: any subset of the keys
GenerateContents ==
    {Restrict(full, S) :
        full \in [pubmed_query : {"(SRM 1950 OR SRM1950) AND HILIC", "metabolomics"},
                  extracted_concepts : {<<"SRM 1950", "HILIC">>},
                  synonyms_used : {[HILIC |-> <<"hydrophilic interaction chromatography">>]},
                  explanation : {"Synonyms grouped with OR."}],
        S \in SUBSET GenerateKeys}

\* The JSON objects the LLM may answer to classify_abstract
ClassifyContents ==
    {Restrict(full, S) :
        full \in [has_dataset : BOOLEAN,
                  confidence : {"high"},
                  reason : {"Deposited in MetaboLights."},
                  data_availability : {"MetaboLights MTBLS1", None},
                  labels : {<<"Method Development", "Review">>},
                  method_types : {<<"LC-MS">>}],
        S \in SUBSET ClassifyKeys}

SearchKeywords == {
    <<"S","R","M"," ","1","9","5","0",","," ","H","I","L","I","C">>,
    <<"(","x"," ","O","R"," ","y",")">> }

Requests ==
    [route : {"/search"}, keywords : SearchKeywords,
     source : {"pubmed", "biorxiv", "invalid"}, max_results : 1..MaxResults,
     search_mode : {AND}, search_fields : {"all", "title"}]
    \cup [route : {"/generate-query"}, natural_language_query : {"SRM 1950 and HILIC"}]
    \cup [route : {"/classify"}, article_id : {"31452104", "2"},
          abstract : {"An abstract"}]

RequestInit ==
    /\ request \in Requests
    /\ api_key \in {None, "", "sk-test"}
    /\ rpc = "received"
    /\ events = <<>>
    /\ search_data = NoReply
    /\ pmids = <<>>
    /\ llm_content = <<>>
    /\ status = 0
    /\ body = <<>>

RequestIdle ==
    /\ request = [route |-> "none"]
    /\ api_key = None
    /\ rpc = "idle"
    /\ events = <<>>
    /\ search_data = NoReply
    /\ pmids = <<>>
    /\ llm_content = <<>>
    /\ status = 0
    /\ body = <<>>

\* The handler returns or raises: the response
Respond(code, content) ==
    /\ status' = code
    /\ body' = content
    /\ rpc' = "responded"

\* /search with source pubmed: search_pubmed compiles the query and sends the
\* identifier lookup
SearchPubmedLookup ==
    /\ rpc = "received"
    /\ request.route = "/search"
    /\ SourceBranch(request.source) = "pubmed"
    /\ LET q == QueryOf(request.keywords, request.search_mode, request.search_fields)
       IN  events' = <<[op |-> "compile", query |-> q],
                       [op |-> "esearch", term |-> q, retmax |-> request.max_results]>>
    /\ rpc' = "await_esearch"
    /\ UNCHANGED <<request, api_key, search_data, pmids, llm_content, status, body>>
    /\ UNCHANGED <<compilerVars, extractorVars>>

\* /search with source biorxiv: search_biorxiv returns no article
SearchBiorxiv ==
    /\ rpc = "received"
    /\ request.route = "/search"
    /\ SourceBranch(request.source) = "biorxiv"
    /\ Respond(200, <<>>)
    /\ UNCHANGED <<request, api_key, events, search_data, pmids, llm_content>>
    /\ UNCHANGED <<compilerVars, extractorVars>>

\* /search with any other source: HTTPException(400)
SearchInvalidSource ==
    /\ rpc = "received"
    /\ request.route = "/search"
    /\ SourceBranch(request.source) = "invalid"
    /\ Respond(400, "Invalid source. Use 'pubmed' or 'biorxiv'")
    /\ UNCHANGED <<request, api_key, events, search_data, pmids, llm_content>>
    /\ UNCHANGED <<compilerVars, extractorVars>>

\* The lookup answers with no usable or an empty idlist: return []
LookupReturnsNothing ==
    /\ rpc = "await_esearch"
    /\ \E data \in EsearchReplies(events[Len(events)].retmax) :
          /\ AfterLookup(data) = "return_empty"
          /\ search_data' = data
          /\ pmids' = IF data.has_result /\ data.has_idlist THEN data.idlist ELSE pmids
    /\ Respond(200, <<>>)
    /\ UNCHANGED <<request, api_key, events, llm_content>>
    /\ UNCHANGED <<compilerVars, extractorVars>>

\* The lookup answers with identifiers: one detail fetch for all of them
LookupReturnsIds ==
    /\ rpc = "await_esearch"
    /\ \E data \in EsearchReplies(events[Len(events)].retmax) :
          /\ AfterLookup(data) = "fetch"
          /\ search_data' = data
          /\ pmids' = data.idlist
          /\ events' = Append(events, [op |-> "efetch", id |-> data.idlist])
    /\ rpc' = "await_efetch"
    /\ UNCHANGED <<request, api_key, llm_content, status, body>>
    /\ UNCHANGED <<compilerVars, extractorVars>>

\* The detail fetch answers: parse_pubmed_xml, and its list is the response
FetchReturns ==
    /\ rpc = "await_efetch"
    /\ \E doc \in FetchedDocuments :
          LET r == ParsePubmedXml(doc)
          IN  IF r.raised THEN Respond(500, "Internal Server Error")
              ELSE Respond(200, r.articles)
    /\ events' = Append(events, [op |-> "extract"])
    /\ UNCHANGED <<request, api_key, search_data, pmids, llm_content>>
    /\ UNCHANGED <<compilerVars, extractorVars>>

\* An upstream call of search_pubmed fails (transport, or a reply that is not
\* JSON): nothing catches it, the request ends with a server error
UpstreamSearchFails ==
    /\ rpc \in {"await_esearch", "await_efetch"}
    /\ Respond(500, "Internal Server Error")
    /\ UNCHANGED <<request, api_key, events, search_data, pmids, llm_content>>
    /\ UNCHANGED <<compilerVars, extractorVars>>

\* /generate-query and /classify with no API key: HTTPException(500)
LlmRouteNoKey ==
    /\ rpc = "received"
    /\ request.route \in {"/generate-query", "/classify"}
    /\ ~KeyConfigured(api_key)
    /\ Respond(500, "OpenAI API key not configured")
    /\ UNCHANGED <<request, api_key, events, search_data, pmids, llm_content>>
    /\ UNCHANGED <<compilerVars, extractorVars>>

\* /generate-query and /classify with a key: the chat-completion call
LlmRouteCall ==
    /\ rpc = "received"
    /\ request.route \in {"/generate-query", "/classify"}
    /\ KeyConfigured(api_key)
    /\ events' = <<[op |-> "llm", bearer |-> api_key]>>
    /\ rpc' = "await_llm"
    /\ UNCHANGED <<request, api_key, search_data, pmids, llm_content, status, body>>
    /\ UNCHANGED <<compilerVars, extractorVars>>

\* The LLM answers 200 with a JSON object: the body with defaults substituted
GenerateQueryReturns ==
    /\ rpc = "await_llm"
    /\ request.route = "/generate-query"
    /\ \E content \in GenerateContents :
          /\ llm_content' = content
          /\ Respond(200, GenerateQueryBody(content))
    /\ UNCHANGED <<request, api_key, events, search_data, pmids>>
    /\ UNCHANGED <<compilerVars, extractorVars>>

ClassifyReturns ==
    /\ rpc = "await_llm"
    /\ request.route = "/classify"
    /\ \E content \in ClassifyContents :
          /\ llm_content' = content
          /\ Respond(200, ClassifyBody(request.article_id, content))
    /\ UNCHANGED <<request, api_key, events, search_data, pmids>>
    /\ UNCHANGED <<compilerVars, extractorVars>>

\* The LLM call fails, answers another status, or its content does not parse:
\* HTTPException(500)
LlmFails ==
    /\ rpc = "await_llm"
    /\ Respond(500, "upstream failure")
    /\ UNCHANGED <<request, api_key, events, search_data, pmids, llm_content>>
    /\ UNCHANGED <<compilerVars, extractorVars>>

-----------------------------------------------------------------------------
(* The runs of the model: one call of one entry point *)

Init ==
    \/ CompilerInit /\ ExtractorIdle /\ RequestIdle
    \/ CompilerIdle /\ ExtractorInit /\ RequestIdle
    \/ CompilerIdle /\ ExtractorIdle /\ RequestInit

Next ==
    \/ BuildPubmedQuery
    \/ Recompile
    \/ ParseXml
    \/ SearchPubmedLookup
    \/ SearchBiorxiv
    \/ SearchInvalidSource
    \/ LookupReturnsNothing
    \/ LookupReturnsIds
    \/ FetchReturns
    \/ UpstreamSearchFails
    \/ LlmRouteNoKey
    \/ LlmRouteCall
    \/ GenerateQueryReturns
    \/ ClassifyReturns
    \/ LlmFails

Spec == Init /\ [][Next]_vars

-----------------------------------------------------------------------------
(* Properties of parse_pubmed_xml *)

\* The id an article element is to get: its identifier text, else "unknown"
ExpectedId(elem) == IF elem.pmid \in {Missing, None} THEN "unknown" ELSE elem.pmid

\* C5: for a well-formed document the result holds one Article per article
\* element, in document order, each with a non-empty id, whatever sub-fields
\* a record lacks.
C5_OneArticlePerElement ==
    (xpc = "done" /\ xml_text.wellformed) =>
        /\ Len(articles) = Len(xml_text.elems)
        /\ \A i \in DOMAIN articles :
              /\ articles[i].id \notin {None, ""}
              /\ articles[i].id = ExpectedId(xml_text.elems[i])

\* C6: parse_pubmed_xml never lets an exception out, and for text that is not
\* well-formed XML it returns the empty list and prints the error.
C6_ParseNeverRaises ==
    xpc = "done" =>
        /\ ~parse_raised
        /\ ~xml_text.wellformed => (articles = <<>> /\ parse_warned)
        /\ parse_warned => Len(articles) <= Len(xml_text.elems)

\* A call on text that is not well-formed XML has returned
C6_Witness ==
    /\ xpc = "done"
    /\ ~xml_text.wellformed
    /\ articles = <<>>
    /\ parse_warned

-----------------------------------------------------------------------------
(* Properties of the routes *)

IsPrefix(a, b) == Len(a) <= Len(b) /\ SubSeq(b, 1, Len(a)) = a
Ops == [i \in DOMAIN events |-> events[i].op]
\* The calls to PubMed and to the LLM made so far
UpstreamCalls == SelectSeq(Ops, LAMBDA o : o \in {"esearch", "efetch", "llm"})
PubmedSearch == request.route = "/search" /\ request.source = "pubmed"

\* C7: a pubmed search compiles once, then makes one lookup capped at
\* max_results, then at most one detail fetch, then extracts; the fetch comes
\* only after the lookup has answered with a non-empty idlist and carries all
\* its ids; a missing or empty idlist ends the request with an empty result,
\* no fetch and no extraction.
C7_SearchStepsInOrder ==
    PubmedSearch =>
        /\ IsPrefix(Ops, <<"compile", "esearch", "efetch", "extract">>)
        /\ rpc # "received" => Len(events) >= 2
        /\ Len(events) >= 2 =>
              /\ events[2].retmax = request.max_results
              /\ events[2].term = events[1].query
        /\ Len(events) >= 3 =>
              /\ search_data.received
              /\ search_data.has_result /\ search_data.has_idlist
              /\ search_data.idlist # <<>>
              /\ events[3].id = search_data.idlist
              /\ Len(events[3].id) <= request.max_results
        /\ rpc = "await_efetch" => Ops = <<"compile", "esearch", "efetch">>
        /\ (rpc = "responded" /\ search_data.received
                /\ (~search_data.has_result \/ ~search_data.has_idlist
                        \/ search_data.idlist = <<>>)) =>
              /\ status = 200
              /\ body = <<>>
              /\ Ops = <<"compile", "esearch">>
        /\ (rpc = "responded" /\ Len(events) = 4) => status = 200

\* A pubmed search that fetched two identifiers and extracted their articles
C7_Witness ==
    /\ PubmedSearch
    /\ rpc = "responded"
    /\ Ops = <<"compile", "esearch", "efetch", "extract">>
    /\ Len(pmids) = 2
    /\ Len(body) = 2
    /\ status = 200

\* The request is one its handler rejects at its boundary
RejectedAtBoundary ==
    \/ request.route = "/search" /\ request.source \notin {"pubmed", "biorxiv"}
    \/ request.route \in {"/generate-query", "/classify"} /\ api_key = None

\* C8: a request rejected at its boundary makes no upstream call: /search with
\* an unknown source ends with status 400, /generate-query and /classify with
\* no LLM credential end with status 500, and no call to PubMed or to the LLM
\* is ever made for it.
C8_RejectedMakesNoCall ==
    RejectedAtBoundary =>
        /\ UpstreamCalls = <<>>
        /\ rpc \in {"received", "responded"}
        /\ rpc = "responded" =>
              status = (IF request.route = "/search" THEN 400 ELSE 500)

\* A /classify request with no credential has been answered 500
C8_Witness ==
    /\ request.route = "/classify"
    /\ api_key = None
    /\ rpc = "responded"
    /\ status = 500
    /\ events = <<>>

\* The documented defaults of the two LLM-backed routes
GenerateDefaults ==
    [pubmed_query |-> "", extracted_concepts |-> <<>>, synonyms_used |-> <<>>,
     explanation |-> ""]
ClassifyDefaults ==
    [has_dataset |-> FALSE, confidence |-> "low", reason |-> "Unable to determine",
     data_availability |-> None, labels |-> <<>>, method_types |-> <<>>]

\* The LLM-backed route answered 200
LlmAnswered ==
    /\ request.route \in {"/generate-query", "/classify"}
    /\ rpc = "responded"
    /\ status = 200

\* C9: for every subset of keys the LLM's answer omits, each omitted key of
\* the response holds its documented default and each present key holds the
\* LLM's value unchanged; /classify echoes the request's article_id.
C9_DefaultsPerKey ==
    LlmAnswered =>
        IF request.route = "/generate-query"
        THEN /\ DOMAIN body = GenerateKeys
             /\ \A k \in GenerateKeys :
                   body[k] = IF k \in DOMAIN llm_content THEN llm_content[k]
                             ELSE GenerateDefaults[k]
        ELSE /\ DOMAIN body = ClassifyKeys \cup {"article_id"}
             /\ body.article_id = request.article_id
             /\ \A k \in ClassifyKeys :
                   body[k] = IF k \in DOMAIN llm_content THEN llm_content[k]
                             ELSE ClassifyDefaults[k]

\* A /classify answer built from an LLM answer that omits some keys and holds
\* others
C9_Witness ==
    /\ LlmAnswered
    /\ request.route = "/classify"
    /\ DOMAIN llm_content = {"has_dataset", "labels"}
    /\ body.has_dataset = TRUE
    /\ body.confidence = "low"
    /\ body.article_id = "2"

====
